---- MODULE Spec2Model ----
(***************************************************************************)
(* Model of the game orchestration engine of server/src/gameLoop.ts (one   *)
(* room): the phase state machine, the per-room deadline timer kept in     *)
(* roomTimers, the reveal-pause and inter-round setTimeout callbacks, the  *)
(* role-scoped player operations and the scoring of a round.               *)
(*                                                                         *)
(* Time is counted in seconds.  Every setTimeout is a pending callback     *)
(* with the seconds left until it is due; Tick lets time pass until the    *)
(* next callback is due, so callbacks run in the order of their expiry, as *)
(* Node's timer queue runs them.  Player calls are handled in any state,   *)
(* before or after any callback.                                           *)
(***************************************************************************)
EXTENDS Integers, Sequences, FiniteSets, TLC

\* ---------------------------------------------------------------- bounds
\* room.totalRounds (5 after createRoom), bounded for the check.
TotalRounds == 2
\* settings.recordingTimeLimit / captioningTimeLimit / votingTimeLimit in
\* seconds (30 / 60 / 45 by default, never below 15), bounded for the check.
\* Any value of at least InterRoundPause keeps every deadline later than
\* every pause that is pending when the deadline is armed.
TimeLimit == 5
\* How many players may be disconnected at the same time.
MaxDisconnected == 1
\* How many player events (successful calls, disconnects, reconnects) the
\* environment produces in one game; the timers run without bound.
MaxCalls == 5

\* ------------------------------------------------------ program constants
RevealPause == 3
InterRoundPause == 5
MinPlayers == 4
pointsPerVote == 50
roundWinnerBonus == 100
soundMakerVotePoints == 25
participationPoints == 10

\* The players that join a room, in joining order.
playerOrder == <<"p1", "p2", "p3", "p4", "p5">>
\* The players of a room of n.
FirstPlayers(n) == {playerOrder[i] : i \in 1..n}
Categories == {"standard", "bestMisinterpretation", "madeMeCryLaugh"}
\* The categories the players of the checked games vote in.
VotedCategories == {"standard"}
Null == "null"
PlaceholderAudio == "placeholder"
DefaultGif == "default"
DefaultCaption == "No caption provided"
Audios == {"a1", "a2"}
Gifs == {"g1"}
Captions == {"c1"}
Emojis == {"e1", "e2"}

VARIABLES
  status,        \* room.status
  currentRound,  \* room.currentRound
  players,       \* room.players: id -> [isConnected, score, stats]
  rounds,        \* room.rounds
  roomTimer,     \* the pending deadline callback kept in roomTimers, or NoTimer
  pending,       \* the pending untracked setTimeout callbacks, in arming order
  scored,        \* per round, how many times endVotingPhase ran on it
  ended,         \* how many times endGame ran
  stale,         \* phases of cancelled deadline callbacks that may still run
  lateFiring,    \* whether a cancelled callback may still run late
  hostId,        \* room.hostId: the id of the room's host
  calls          \* player events so far

vars == <<status, currentRound, players, rounds, roomTimer, pending, scored,
          ended, stale, lateFiring, hostId, calls>>

totalRounds == TotalRounds
recordingTimeLimit == TimeLimit
captioningTimeLimit == TimeLimit
votingTimeLimit == TimeLimit

NoTimer == [phase |-> "none", left |-> 0]

defaultStats == [soundsCreated |-> 0, captionsWritten |-> 0, roundsWon |-> 0,
                 votesReceived |-> 0, soundVotesReceived |-> 0,
                 bestMisinterpretationVotes |-> 0, madeMeCryLaughVotes |-> 0]

\* ----------------------------------------------------------------- helpers
RECURSIVE SumOver(_, _)
SumOver(S, f) ==
  IF S = {} THEN 0
  ELSE LET x == CHOOSE y \in S : TRUE IN f[x] + SumOver(S \ {x}, f)

MaxOf(S) == CHOOSE x \in S : \A y \in S : y <= x

\* room.players
Players == DOMAIN players

connectedPlayers == {p \in Players : players[p].isConnected}

latest == rounds[Len(rounds)]

SubIds(round) == DOMAIN round.submissions

\* ------------------------------------------------------------ timer layer
\* clearRoomTimer: the cancelled callback never runs, unless lateFiring.
clearRoomTimer(rt, st) ==
  IF rt.phase # "none" /\ lateFiring THEN st \cup {rt.phase} ELSE st

\* schedulePhaseEnd(room, phase, seconds): seconds * 1000 + 1000 ms.
schedulePhaseEnd(phase, seconds) == [phase |-> phase, left |-> seconds + 1]

\* ----------------------------------------------------------- startRound
Bijections(A, B) ==
  {f \in [A -> B] : \A a, b \in A : a # b => f[a] # f[b]}

\* shuffle + slice: any ceil(n/2) of the connected players are sound makers.
RoleSplits ==
  {sm \in SUBSET connectedPlayers :
     Cardinality(sm) = (Cardinality(connectedPlayers) + 1) \div 2}

\* The pairing loop: sound makers, in shuffled order, each draw one of the
\* selectors not yet used; a sound maker that finds none gets no assignment.
Pairings(sm) ==
  LET gs == connectedPlayers \ sm IN
  UNION {Bijections(A, gs) :
           A \in {B \in SUBSET sm : Cardinality(B) = Cardinality(gs)}}

\* Math.random is an input of startRound.  The shuffles examined are the two
\* that keep the connected players in joining order or reverse it, so that
\* the sound makers are the first or the last ceil(n/2) of them; every
\* outcome of the pairing loop is examined.
ExaminedSplits ==
  LET ordered == SelectSeq(playerOrder, LAMBDA p : p \in connectedPlayers)
      n == Len(ordered)
      k == (n + 1) \div 2
  IN {sm \in RoleSplits :
        \/ sm = {ordered[i] : i \in 1..k}
        \/ sm = {ordered[i] : i \in (n - k + 1)..n}}

NewSubmission(rn, m, g) ==
  [roundNumber |-> rn, soundMakerId |-> m, gifSelectorId |-> g,
   audio |-> Null, gif |-> Null, caption |-> "", votes |-> {},
   reactions |-> {}, score |-> 0, submittedAt |-> Null]

startRound(cr, sm, pair, rt, st) ==
  /\ rounds' = Append(rounds,
       [roundNumber |-> cr, status |-> "recording", soundMakers |-> sm,
        gifSelectors |-> connectedPlayers \ sm,
        submissions |-> [m \in DOMAIN pair |-> NewSubmission(cr, m, pair[m])]])
  /\ scored' = Append(scored, 0)
  /\ roomTimer' = schedulePhaseEnd("recording", recordingTimeLimit)
  /\ stale' = clearRoomTimer(rt, st)

\* ------------------------------------------------------------- startGame
\* A startGame guard without the test of room.status.  C37 must not hold of
\* it.
startGameErrorAnyStatus ==
  IF Cardinality(connectedPlayers) < MinPlayers THEN "Need at least 4 players"
  ELSE "ok"

startGameError ==
  IF status # "waiting" THEN "Game already in progress"
  ELSE IF Cardinality(connectedPlayers) < MinPlayers THEN "Need at least 4 players"
  ELSE "ok"

startGame ==
  IF startGameError # "ok" THEN UNCHANGED vars
  ELSE /\ status' = "recording"
       /\ currentRound' = 1
       /\ \E sm \in ExaminedSplits : \E pair \in Pairings(sm) :
            startRound(1, sm, pair, roomTimer, stale)
       /\ UNCHANGED <<players, pending, ended, lateFiring, hostId, calls>>

\* ------------------------------------------------------------ scoring
VoteCount(round, i) == Cardinality(round.submissions[i].votes)

\* Math.max(...voteCounts.values(), 0)
MaxVotes(round) == MaxOf({VoteCount(round, i) : i \in SubIds(round)} \cup {0})

IsRoundWinner(round, i) ==
  VoteCount(round, i) > 0 /\ VoteCount(round, i) = MaxVotes(round)

SubmissionScore(round, i) ==
  VoteCount(round, i) * pointsPerVote + participationPoints
    + (IF IsRoundWinner(round, i) THEN roundWinnerBonus ELSE 0)

\* A calculateScores that adds to submission.score.  C29 must not hold of it.
calculateScoresRoundAdding(round) ==
  [round EXCEPT !.submissions =
     [i \in SubIds(round) |-> [@[i] EXCEPT !.score = @ + SubmissionScore(round, i)]]]

\* calculateScores, the part that writes submission.score
calculateScoresRound(round) ==
  [round EXCEPT !.submissions =
     [i \in SubIds(round) |-> [@[i] EXCEPT !.score = SubmissionScore(round, i)]]]

\* A calculateScores that credits every sound maker, winner or not.  C34
\* must not hold of it.
calculateScoresPlayersAlways(pls, round) ==
  [p \in Players |->
     [pls[p] EXCEPT !.score = @
        + SumOver({i \in SubIds(round) : round.submissions[i].gifSelectorId = p},
                  [i \in SubIds(round) |-> SubmissionScore(round, i)])
        + SumOver({i \in SubIds(round) : round.submissions[i].soundMakerId = p},
                  [i \in SubIds(round) |-> soundMakerVotePoints])]]

\* calculateScores, the part that credits gifSelector.score and soundMaker.score
calculateScoresPlayers(pls, round) ==
  [p \in Players |->
     [pls[p] EXCEPT !.score = @
        + SumOver({i \in SubIds(round) : round.submissions[i].gifSelectorId = p},
                  [i \in SubIds(round) |-> SubmissionScore(round, i)])
        + SumOver({i \in SubIds(round) :
                     round.submissions[i].soundMakerId = p /\ IsRoundWinner(round, i)},
                  [i \in SubIds(round) |-> soundMakerVotePoints])]]

updatePlayerStats(pls, round) ==
  LET asMaker(p) == {i \in SubIds(round) : round.submissions[i].soundMakerId = p}
      asSelector(p) == {i \in SubIds(round) : round.submissions[i].gifSelectorId = p}
      votesOf == [i \in SubIds(round) |-> VoteCount(round, i)]
  IN [p \in Players |->
        [pls[p] EXCEPT
           !.stats.soundsCreated = @ + Cardinality(asMaker(p)),
           !.stats.soundVotesReceived = @ + SumOver(asMaker(p), votesOf),
           !.stats.captionsWritten = @ + Cardinality(asSelector(p)),
           !.stats.votesReceived = @ + SumOver(asSelector(p), votesOf),
           !.stats.roundsWon = @ +
              Cardinality({i \in asSelector(p) : IsRoundWinner(round, i)})]]

\* ------------------------------------------------------ phase transitions
\* Each takes the rounds as the caller left them (rds), the deadline callback
\* still pending (rt) and the cancelled callbacks (st).

\* An endRecordingPhase without the placeholder loop.  C33 must not hold of
\* it.
endRecordingPhaseBare(rds, rt, st) ==
  LET r == Len(rds) IN
  /\ rounds' = [rds EXCEPT ![r].status = "captioning"]
  /\ status' = "captioning"
  /\ roomTimer' = schedulePhaseEnd("captioning", captioningTimeLimit)
  /\ stale' = clearRoomTimer(rt, st)
  /\ UNCHANGED <<currentRound, players, pending, scored, ended, lateFiring, hostId>>

endRecordingPhase(rds, rt, st) ==
  LET r == Len(rds) IN
  /\ rounds' = [rds EXCEPT ![r] =
       [@ EXCEPT !.status = "captioning",
                 !.submissions = [i \in DOMAIN @ |->
                    IF @[i].audio = Null
                    THEN [@[i] EXCEPT !.audio = PlaceholderAudio]
                    ELSE @[i]]]]
  /\ status' = "captioning"
  /\ roomTimer' = schedulePhaseEnd("captioning", captioningTimeLimit)
  /\ stale' = clearRoomTimer(rt, st)
  /\ UNCHANGED <<currentRound, players, pending, scored, ended, lateFiring, hostId>>

\* new Date().toISOString(): of a timestamp the model keeps that it is set,
\* not its value.
Stamp == "set"

finalized(s) ==
  IF s.submittedAt # Null THEN s
  ELSE [s EXCEPT !.submittedAt = Stamp,
                 !.gif = IF @ = Null THEN DefaultGif ELSE @,
                 !.caption = IF @ = "" THEN DefaultCaption ELSE @]

endCaptioningPhase(rds, rt, st) ==
  LET r == Len(rds) IN
  /\ rounds' = [rds EXCEPT ![r] =
       [@ EXCEPT !.status = "voting",
                 !.submissions = [i \in DOMAIN @ |-> finalized(@[i])]]]
  /\ status' = "results"
  /\ pending' = Append(pending, [kind |-> "reveal", left |-> RevealPause])
  /\ roomTimer' = rt
  /\ stale' = st
  /\ UNCHANGED <<currentRound, players, scored, ended, lateFiring, hostId>>

startVotingPhase(rt, st) ==
  /\ rounds' = [rounds EXCEPT ![Len(rounds)].status = "voting"]
  /\ status' = "voting"
  /\ roomTimer' = schedulePhaseEnd("voting", votingTimeLimit)
  /\ stale' = clearRoomTimer(rt, st)
  /\ UNCHANGED <<currentRound, players, scored, ended, lateFiring, hostId>>

\* What endVotingPhase schedules after the inter-round pause.
AfterScoring ==
  IF currentRound >= totalRounds THEN "endGame" ELSE "nextRound"

endVotingPhase(rds, rt, st) ==
  LET r == Len(rds)
      done == [rds[r] EXCEPT !.status = "completed"]
  IN
  /\ rounds' = [rds EXCEPT ![r] = calculateScoresRound(done)]
  /\ status' = "scoring"
  /\ players' = updatePlayerStats(calculateScoresPlayers(players, done), done)
  /\ pending' = Append(pending, [kind |-> AfterScoring, left |-> InterRoundPause])
  /\ scored' = [scored EXCEPT ![r] = @ + 1]
  /\ roomTimer' = rt
  /\ stale' = st
  /\ UNCHANGED <<currentRound, ended, lateFiring, hostId>>

\* handlePhaseTimeout without its 'voting' case: a voting phase that waits
\* for the votes.  C6 must not hold of it.
handlePhaseTimeoutWaiting(phase, rt, st) ==
  IF rounds = <<>> \/ latest.status # phase \/ phase = "voting"
  THEN /\ roomTimer' = rt
       /\ stale' = st
       /\ UNCHANGED <<status, currentRound, players, rounds, pending, scored,
                      ended, lateFiring, hostId>>
  ELSE CASE phase = "recording" -> endRecordingPhase(rounds, rt, st)
         [] phase = "captioning" -> endCaptioningPhase(rounds, rt, st)

handlePhaseTimeout(phase, rt, st) ==
  IF rounds = <<>> \/ latest.status # phase
  THEN /\ roomTimer' = rt
       /\ stale' = st
       /\ UNCHANGED <<status, currentRound, players, rounds, pending, scored,
                      ended, lateFiring, hostId>>
  ELSE CASE phase = "recording" -> endRecordingPhase(rounds, rt, st)
         [] phase = "captioning" -> endCaptioningPhase(rounds, rt, st)
         [] phase = "voting" -> endVotingPhase(rounds, rt, st)

\* ------------------------------------------------------------ the clock
Due(i) == pending[i].left = 0 /\ \A j \in 1..(i - 1) : pending[j].left # 0

Remove(seq, i) == SubSeq(seq, 1, i - 1) \o SubSeq(seq, i + 1, Len(seq))

\* The seconds left of every pending callback.
Lefts ==
  {pending[i].left : i \in 1..Len(pending)}
    \cup (IF roomTimer.phase = "none" THEN {} ELSE {roomTimer.left})

MinOf(S) == CHOOSE x \in S : \A y \in S : x <= y

\* Time passes until the next pending callback is due.
Tick ==
  /\ Lefts # {}
  /\ MinOf(Lefts) > 0
  /\ roomTimer' = IF roomTimer.phase = "none" THEN roomTimer
                  ELSE [roomTimer EXCEPT !.left = @ - MinOf(Lefts)]
  /\ pending' = [i \in 1..Len(pending) |->
                   [pending[i] EXCEPT !.left = @ - MinOf(Lefts)]]
  /\ UNCHANGED <<status, currentRound, players, rounds, scored, ended, stale,
                 lateFiring, hostId, calls>>

\* The setTimeout callback of schedulePhaseEnd runs.
DeadlineFire ==
  /\ roomTimer.phase # "none"
  /\ roomTimer.left = 0
  /\ handlePhaseTimeout(roomTimer.phase, NoTimer, stale)
  /\ UNCHANGED calls

\* The setTimeout callback of endCaptioningPhase runs.
RevealFire ==
  \E i \in 1..Len(pending) :
    /\ Due(i)
    /\ pending[i].kind = "reveal"
    /\ pending' = Remove(pending, i)
    /\ startVotingPhase(roomTimer, stale)
    /\ UNCHANGED calls

\* The setTimeout callback of endVotingPhase's else branch runs.
NextRoundFire ==
  \E i \in 1..Len(pending) :
    /\ Due(i)
    /\ pending[i].kind = "nextRound"
    /\ pending' = Remove(pending, i)
    /\ currentRound' = currentRound + 1
    /\ status' = "recording"
    /\ \E sm \in ExaminedSplits : \E pair \in Pairings(sm) :
         startRound(currentRound + 1, sm, pair, roomTimer, stale)
    /\ UNCHANGED <<players, ended, lateFiring, hostId, calls>>

endGame ==
  /\ status' = "finished"
  /\ roomTimer' = NoTimer
  /\ stale' = clearRoomTimer(roomTimer, stale)
  /\ ended' = ended + 1
  /\ UNCHANGED <<currentRound, players, rounds, scored, lateFiring, hostId>>

\* The setTimeout callback of endVotingPhase's then branch runs.
EndGameFire ==
  \E i \in 1..Len(pending) :
    /\ Due(i)
    /\ pending[i].kind = "endGame"
    /\ pending' = Remove(pending, i)
    /\ endGame
    /\ UNCHANGED calls

\* ----------------------------------------------------- player operations
\* One more player event, within the bound of the environment.
Called == calls < MaxCalls /\ calls' = calls + 1

\* A call reaches the engine only from a socket registered in socketToPlayer,
\* that is, from a connected player.  Each XError operator is the result of
\* the call in the current state ("ok" for success: true).

submitAudioError(p) ==
  IF rounds = <<>> \/ latest.status # "recording" THEN "Not in recording phase"
  ELSE IF \A i \in SubIds(latest) : latest.submissions[i].soundMakerId # p
       THEN "You are not a sound maker this round"
  ELSE "ok"

\* A submitAudio with an early completion of the recording phase.  C12 must
\* not hold of it.
submitAudioEndsRecording(p, audio) ==
  /\ players[p].isConnected
  /\ IF submitAudioError(p) # "ok" THEN UNCHANGED vars
     ELSE LET rds == [rounds EXCEPT ![Len(rounds)].submissions =
                [i \in DOMAIN @ |->
                   IF @[i].soundMakerId = p THEN [@[i] EXCEPT !.audio = audio]
                   ELSE @[i]]]
              subs == rds[Len(rds)].submissions
          IN /\ Called
             /\ IF \A i \in DOMAIN subs : subs[i].audio # Null
                THEN endRecordingPhase(rds, NoTimer, clearRoomTimer(roomTimer, stale))
                ELSE /\ rounds' = rds
                     /\ UNCHANGED <<status, currentRound, players, roomTimer, pending,
                                    scored, ended, stale, lateFiring, hostId>>

submitAudio(p, audio) ==
  /\ players[p].isConnected
  /\ IF submitAudioError(p) # "ok" THEN UNCHANGED vars
     ELSE /\ Called
          /\ rounds' = [rounds EXCEPT ![Len(rounds)].submissions =
                [i \in DOMAIN @ |->
                   IF @[i].soundMakerId = p THEN [@[i] EXCEPT !.audio = audio]
                   ELSE @[i]]]
          /\ UNCHANGED <<status, currentRound, players, roomTimer, pending,
                         scored, ended, stale, lateFiring, hostId>>

\* A guard without the test of the caller's role.  C20 must not hold of it.
captioningErrorAnyRole(p, a) ==
  IF rounds = <<>> \/ latest.status # "captioning" THEN "Not in captioning phase"
  ELSE IF a \notin SubIds(latest) THEN "Invalid assignment"
  ELSE "ok"

\* The guard shared by submitGif, submitCaption and finalizeSubmission.
captioningError(p, a) ==
  IF rounds = <<>> \/ latest.status # "captioning" THEN "Not in captioning phase"
  ELSE IF a \notin SubIds(latest) \/ latest.submissions[a].gifSelectorId # p
       THEN "Invalid assignment"
  ELSE "ok"

submitGif(p, a, gif) ==
  /\ players[p].isConnected
  /\ IF captioningError(p, a) # "ok" THEN UNCHANGED vars
     ELSE /\ Called
          /\ rounds' = [rounds EXCEPT ![Len(rounds)].submissions[a].gif = gif]
          /\ UNCHANGED <<status, currentRound, players, roomTimer, pending,
                         scored, ended, stale, lateFiring, hostId>>

submitCaption(p, a, caption) ==
  /\ players[p].isConnected
  /\ IF captioningError(p, a) # "ok" THEN UNCHANGED vars
     ELSE /\ Called
          /\ rounds' = [rounds EXCEPT ![Len(rounds)].submissions[a].caption = caption]
          /\ UNCHANGED <<status, currentRound, players, roomTimer, pending,
                         scored, ended, stale, lateFiring, hostId>>

\* A finalizeSubmission whose early completion leaves the deadline armed.
\* C11 must not hold of it.
finalizeSubmissionKeepsDeadline(p, a) ==
  /\ players[p].isConnected
  /\ IF captioningError(p, a) # "ok" THEN UNCHANGED vars
     ELSE LET rds == [rounds EXCEPT ![Len(rounds)].submissions[a].submittedAt = Stamp]
              subs == rds[Len(rds)].submissions
          IN /\ Called
             /\ IF \A i \in DOMAIN subs : subs[i].submittedAt # Null
                THEN endCaptioningPhase(rds, roomTimer, stale)
                ELSE /\ rounds' = rds
                     /\ UNCHANGED <<status, currentRound, players, roomTimer, pending,
                                 scored, ended, stale, lateFiring, hostId>>

finalizeSubmission(p, a) ==
  /\ players[p].isConnected
  /\ IF captioningError(p, a) # "ok" THEN UNCHANGED vars
     ELSE LET rds == [rounds EXCEPT ![Len(rounds)].submissions[a].submittedAt = Stamp]
              subs == rds[Len(rds)].submissions
          IN /\ Called
             /\ IF \A i \in DOMAIN subs : subs[i].submittedAt # Null
                THEN endCaptioningPhase(rds, NoTimer, clearRoomTimer(roomTimer, stale))
                ELSE /\ rounds' = rds
                     /\ UNCHANGED <<status, currentRound, players, roomTimer, pending,
                                 scored, ended, stale, lateFiring, hostId>>

castVoteError(p, s) ==
  IF rounds = <<>> \/ latest.status # "voting" THEN "Not in voting phase"
  ELSE IF s \notin SubIds(latest) THEN "Submission not found"
  ELSE IF latest.submissions[s].gifSelectorId = p \/ latest.submissions[s].soundMakerId = p
       THEN "Cannot vote for your own submission"
  ELSE "ok"

\* Vote lists after a push without the removal loop.  C14 must not hold of
\* them.
votesAfterPushOnly(round, p, s, category) ==
  [round EXCEPT !.submissions =
     [i \in DOMAIN @ |->
        [@[i] EXCEPT !.votes =
           @ \cup (IF i = s THEN {[playerId |-> p, category |-> category]} ELSE {})]]]

\* The vote lists of the round after castVote's removal loop and push.
votesAfter(round, p, s, category) ==
  [round EXCEPT !.submissions =
     [i \in DOMAIN @ |->
        [@[i] EXCEPT !.votes =
           {v \in @ : v.playerId # p}
             \cup (IF i = s THEN {[playerId |-> p, category |-> category]} ELSE {})]]]

totalVotes(round) ==
  SumOver(SubIds(round), [i \in SubIds(round) |-> VoteCount(round, i)])

\* An early-completion test that waits for one vote more.  C10 must not hold
\* of it.
allVotedLate(round) == totalVotes(round) > Cardinality(connectedPlayers)

\* An early-completion test that counts the creators of the round's
\* submissions only.  C26 must not hold of it.
allVotedOfCreators(round) ==
  totalVotes(round) >=
    Cardinality({p \in connectedPlayers : \E i \in SubIds(round) :
                   p \in {round.submissions[i].soundMakerId,
                          round.submissions[i].gifSelectorId}})

\* castVote's early-completion test
allVoted(round) == totalVotes(round) >= Cardinality(connectedPlayers)

\* A castVote whose removal loop runs before the check of the target's
\* creators.  C16 must not hold of it.
castVoteRetractsFirst(p, s, category) ==
  /\ players[p].isConnected
  /\ IF castVoteError(p, s) = "Cannot vote for your own submission"
     THEN /\ rounds' = [rounds EXCEPT ![Len(rounds)].submissions =
                [i \in DOMAIN @ |->
                   [@[i] EXCEPT !.votes = {v \in @ : v.playerId # p}]]]
          /\ UNCHANGED <<status, currentRound, players, roomTimer, pending,
                         scored, ended, stale, lateFiring, hostId, calls>>
     ELSE IF castVoteError(p, s) # "ok" THEN UNCHANGED vars
     ELSE LET rds == [rounds EXCEPT ![Len(rounds)] = votesAfter(@, p, s, category)]
          IN /\ Called
             /\ IF allVoted(rds[Len(rds)])
                THEN endVotingPhase(rds, NoTimer, clearRoomTimer(roomTimer, stale))
                ELSE /\ rounds' = rds
                     /\ UNCHANGED <<status, currentRound, players, roomTimer, pending,
                                 scored, ended, stale, lateFiring, hostId>>

castVote(p, s, category) ==
  /\ players[p].isConnected
  /\ IF castVoteError(p, s) # "ok" THEN UNCHANGED vars
     ELSE LET rds == [rounds EXCEPT ![Len(rounds)] = votesAfter(@, p, s, category)]
          IN /\ Called
             /\ IF allVoted(rds[Len(rds)])
                THEN endVotingPhase(rds, NoTimer, clearRoomTimer(roomTimer, stale))
                ELSE /\ rounds' = rds
                     /\ UNCHANGED <<status, currentRound, players, roomTimer, pending,
                                 scored, ended, stale, lateFiring, hostId>>

addReactionError(s) ==
  IF rounds = <<>> THEN "No active round"
  ELSE IF s \notin SubIds(latest) THEN "Submission not found"
  ELSE "ok"

\* An addReaction without the removal of the player's earlier reaction.  C36
\* must not hold of it.
addReactionPushOnly(p, s, emoji) ==
  /\ players[p].isConnected
  /\ IF addReactionError(s) # "ok" THEN UNCHANGED vars
     ELSE /\ Called
          /\ rounds' = [rounds EXCEPT ![Len(rounds)].submissions[s].reactions =
                @ \cup {[playerId |-> p, emoji |-> emoji]}]
          /\ UNCHANGED <<status, currentRound, players, roomTimer, pending,
                         scored, ended, stale, lateFiring, hostId>>

addReaction(p, s, emoji) ==
  /\ players[p].isConnected
  /\ IF addReactionError(s) # "ok" THEN UNCHANGED vars
     ELSE /\ Called
          /\ rounds' = [rounds EXCEPT ![Len(rounds)].submissions[s].reactions =
                {r \in @ : r.playerId # p} \cup {[playerId |-> p, emoji |-> emoji]}]
          /\ UNCHANGED <<status, currentRound, players, roomTimer, pending,
                         scored, ended, stale, lateFiring, hostId>>

\* socket.on('disconnect'): the player stays in the room, marked disconnected.
socketDisconnect(p) ==
  /\ players[p].isConnected
  /\ Called
  /\ players' = [players EXCEPT ![p].isConnected = FALSE]
  /\ UNCHANGED <<status, currentRound, rounds, roomTimer, pending, scored,
                 ended, stale, lateFiring, hostId>>

\* A disconnect while fewer than MaxDisconnected players are away.
Disconnect(p) ==
  /\ Cardinality(Players \ connectedPlayers) < MaxDisconnected
  /\ socketDisconnect(p)

\* A reconnect that hands the player a fresh score.  C30 must not hold of
\* it.
ReconnectFresh(p) ==
  /\ ~players[p].isConnected
  /\ Called
  /\ players' = [players EXCEPT ![p].isConnected = TRUE, ![p].score = 0]
  /\ UNCHANGED <<status, currentRound, rounds, roomTimer, pending, scored,
                 ended, stale, lateFiring, hostId>>

\* socket.on('player:reconnect') -> updatePlayerSocket
Reconnect(p) ==
  /\ ~players[p].isConnected
  /\ Called
  /\ players' = [players EXCEPT ![p].isConnected = TRUE]
  /\ UNCHANGED <<status, currentRound, rounds, roomTimer, pending, scored,
                 ended, stale, lateFiring, hostId>>

\* The room after createRoom and three joinRoom calls: four connected players
\* in the lobby.
Lobby ==
  /\ status = "waiting"
  /\ currentRound = 0
  /\ hostId = "p1"
  /\ players = [p \in FirstPlayers(MinPlayers) |->
                  [isConnected |-> TRUE, isHost |-> p = "p1", score |-> 0,
                   stats |-> defaultStats]]
  /\ rounds = <<>>
  /\ roomTimer = NoTimer
  /\ pending = <<>>
  /\ scored = <<>>
  /\ ended = 0
  /\ stale = {}
  /\ calls = 0

\* The first round as startGame creates it from the lobby when the shuffle
\* makes p1 and p2 the sound makers and pairs them with p3 and p4.  The four
\* players are interchangeable in the lobby, so every other outcome of the
\* first shuffle is this one with the players renamed.
Started ==
  /\ status = "recording"
  /\ currentRound = 1
  /\ hostId = "p1"
  /\ players = [p \in FirstPlayers(MinPlayers) |->
                  [isConnected |-> TRUE, isHost |-> p = "p1", score |-> 0,
                   stats |-> defaultStats]]
  /\ rounds = <<[roundNumber |-> 1, status |-> "recording",
                 soundMakers |-> {"p1", "p2"}, gifSelectors |-> {"p3", "p4"},
                 submissions |-> [m \in {"p1", "p2"} |->
                    NewSubmission(1, m, IF m = "p1" THEN "p3" ELSE "p4")]]>>
  /\ roomTimer = schedulePhaseEnd("recording", recordingTimeLimit)
  /\ pending = <<>>
  /\ scored = <<0>>
  /\ ended = 0
  /\ stale = {}
  /\ calls = 0

\* A game in progress, cancelled callbacks never run (Node's clearTimeout).
Init == Started /\ lateFiring = FALSE

Next ==
  \/ Tick
  \/ DeadlineFire
  \/ RevealFire
  \/ NextRoundFire
  \/ EndGameFire
  \/ \E p \in Players, a \in Players : finalizeSubmission(p, a)
  \/ \E p \in Players, s \in Players, c \in VotedCategories : castVote(p, s, c)
  \/ \E p \in Players : Disconnect(p)
  \/ \E p \in Players : Reconnect(p)

Spec == Init /\ [][Next]_vars

\* The timers are Node timers: time passes and a due callback runs.
Fairness ==
  /\ WF_vars(Tick)
  /\ WF_vars(DeadlineFire)
  /\ WF_vars(RevealFire)
  /\ WF_vars(NextRoundFire)
  /\ WF_vars(EndGameFire)

FairSpec == Spec /\ Fairness

\* A cancelled deadline callback runs late all the same.
StaleFire(ph) ==
  /\ ph \in stale
  /\ handlePhaseTimeout(ph, roomTimer, stale \ {ph})
  /\ UNCHANGED calls

NextStale ==
  \/ Next
  \/ \E ph \in {"recording", "captioning", "voting"} : StaleFire(ph)

InitStale == Started /\ lateFiring = TRUE

SpecStale == InitStale /\ [][NextStale]_vars

\* The lobby, from which startGame starts the game.
NextLobby ==
  \/ startGame
  \/ Next

InitLobby == Lobby /\ lateFiring = FALSE

SpecLobby == InitLobby /\ [][NextLobby]_vars

\* The first round of the game, up to its scoring, with the content
\* operations of the recording and captioning phases; the players stay
\* connected.
NextContent ==
  \/ Tick
  \/ DeadlineFire
  \/ RevealFire
  \/ \E p \in Players, audio \in Audios : submitAudio(p, audio)
  \/ \E p \in Players, a \in Players, gif \in Gifs : submitGif(p, a, gif)
  \/ \E p \in Players, a \in Players, caption \in Captions : submitCaption(p, a, caption)
  \/ \E p \in Players, a \in Players : finalizeSubmission(p, a)
  \/ \E p \in Players, s \in Players, c \in VotedCategories : castVote(p, s, c)

SpecContent == Init /\ [][NextContent]_vars

\* The first round of the game, up to its scoring, with votes in every
\* category and players that disconnect and reconnect.
NextVoting ==
  \/ Tick
  \/ DeadlineFire
  \/ RevealFire
  \/ \E p \in Players, s \in Players, c \in Categories : castVote(p, s, c)
  \/ \E p \in Players : Disconnect(p)
  \/ \E p \in Players : Reconnect(p)

\* The first round of a room of five as startGame creates it when the shuffle
\* makes p1, p2 and p3 the sound makers and the pairing loop pairs p1 with p4
\* and p2 with p5: p3 finds no selector left and has no assignment.
StartedFive ==
  /\ status = "recording"
  /\ currentRound = 1
  /\ hostId = "p1"
  /\ players = [p \in FirstPlayers(5) |->
                  [isConnected |-> TRUE, isHost |-> p = "p1", score |-> 0,
                   stats |-> defaultStats]]
  /\ rounds = <<[roundNumber |-> 1, status |-> "recording",
                 soundMakers |-> {"p1", "p2", "p3"}, gifSelectors |-> {"p4", "p5"},
                 submissions |-> [m \in {"p1", "p2"} |->
                    NewSubmission(1, m, IF m = "p1" THEN "p4" ELSE "p5")]]>>
  /\ roomTimer = schedulePhaseEnd("recording", recordingTimeLimit)
  /\ pending = <<>>
  /\ scored = <<0>>
  /\ ended = 0
  /\ stale = {}
  /\ calls = 0

InitFive == StartedFive /\ lateFiring = FALSE

SpecVoting == InitFive /\ [][NextVoting]_vars

\* The first round of the game, up to its scoring, with standard votes and
\* any number of players away.
NextAway ==
  \/ Tick
  \/ DeadlineFire
  \/ RevealFire
  \/ \E p \in Players, s \in Players, c \in VotedCategories : castVote(p, s, c)
  \/ \E p \in Players : socketDisconnect(p)
  \/ \E p \in Players : Reconnect(p)

SpecAway == Init /\ [][NextAway]_vars

\* ------------------------------------------------- calls with a room id
\* The engine's functions take the room id first and answer 'Room not found'
\* before anything else when the registry has no such room.
RoomId == "room"
RoomIds == {RoomId, "gone"}

getRoom(roomId) == roomId = RoomId

Result(roomId, error) == IF getRoom(roomId) THEN error ELSE "Room not found"

InRoom(roomId, p, call) ==
  IF getRoom(roomId) THEN call ELSE players[p].isConnected /\ UNCHANGED vars

NextCalls ==
  \/ Tick
  \/ DeadlineFire
  \/ RevealFire
  \/ \E roomId \in RoomIds, p \in Players, audio \in Audios :
       InRoom(roomId, p, submitAudio(p, audio))
  \/ \E roomId \in RoomIds, p \in Players, a \in Players, gif \in Gifs :
       InRoom(roomId, p, submitGif(p, a, gif))
  \/ \E roomId \in RoomIds, p \in Players, a \in Players, caption \in Captions :
       InRoom(roomId, p, submitCaption(p, a, caption))
  \/ \E roomId \in RoomIds, p \in Players, a \in Players :
       InRoom(roomId, p, finalizeSubmission(p, a))
  \/ \E roomId \in RoomIds, p \in Players, s \in Players, c \in VotedCategories :
       InRoom(roomId, p, castVote(p, s, c))

SpecCalls == Init /\ [][NextCalls]_vars

\* ------------------------------------- startRound, draw by draw
\* shuffle: for i from the last index down to the second, array[i] is swapped
\* with array[j], j drawn from the indices up to i.  All outcomes.
Swap(array, i, j) == [array EXCEPT ![i] = array[j], ![j] = array[i]]

RECURSIVE shuffleFrom(_, _)
shuffleFrom(array, i) ==
  IF i <= 1 THEN {array}
  ELSE UNION {shuffleFrom(Swap(array, i, j), i - 1) : j \in 1..i}

shuffle(array) == shuffleFrom(array, Len(array))

\* room.players.filter(p => p.isConnected).map(p => p.id)
playerIds == SelectSeq(playerOrder, LAMBDA p : p \in connectedPlayers)

\* Math.floor in the place of Math.ceil.  C24 must not hold of it.
numSoundMakersFloor(n) == n \div 2

\* Math.ceil(playerIds.length / 2)
numSoundMakers(n) == (n + 1) \div 2

\* gifSelectors.filter(id => !usedSelectors.has(id)), without the filter.
\* C25 must not hold of it.
availableSelectorsAll(gifSelectors, usedSelectors) == gifSelectors

availableSelectors(gifSelectors, usedSelectors) ==
  SelectSeq(gifSelectors, LAMBDA id : id \notin usedSelectors)

\* The assignment loop from the k-th sound maker on: all outcomes of the
\* selector draws.
RECURSIVE assignmentLoop(_, _, _, _, _)
assignmentLoop(cr, soundMakers, k, gifSelectors, usedSelectors) ==
  IF k > Len(soundMakers) THEN {<<>>}
  ELSE LET available == availableSelectors(gifSelectors, usedSelectors) IN
       IF Len(available) > 0
       THEN UNION {
              {<<[soundMakerId |-> soundMakers[k],
                  gifSelectorId |-> available[selectorIndex],
                  roundNumber |-> cr]>> \o rest :
                 rest \in assignmentLoop(cr, soundMakers, k + 1, gifSelectors,
                            usedSelectors \cup {available[selectorIndex]})} :
              selectorIndex \in 1..Len(available)}
       ELSE assignmentLoop(cr, soundMakers, k + 1, gifSelectors, usedSelectors)

\* startRound with the shuffle's outcome and the loop's outcome as inputs.
\* The round keeps its arrays: soundMakers, gifSelectors, assignments, and
\* one submission per assignment, in the order of the assignments.
startRoundDrawn(cr, shuffled, assignments, rt, st) ==
  /\ rounds' = Append(rounds,
       [roundNumber |-> cr, status |-> "recording",
        soundMakers |-> SubSeq(shuffled, 1, numSoundMakers(Len(shuffled))),
        gifSelectors |-> SubSeq(shuffled, numSoundMakers(Len(shuffled)) + 1,
                                Len(shuffled)),
        assignments |-> assignments,
        submissions |-> [k \in DOMAIN assignments |->
           NewSubmission(cr, assignments[k].soundMakerId,
                         assignments[k].gifSelectorId)]])
  /\ scored' = Append(scored, 0)
  /\ roomTimer' = schedulePhaseEnd("recording", recordingTimeLimit)
  /\ stale' = clearRoomTimer(rt, st)

startGameDrawn ==
  IF startGameError # "ok" THEN UNCHANGED vars
  ELSE /\ status' = "recording"
       /\ currentRound' = 1
       /\ \E shuffled \in shuffle(playerIds) :
            \E assignments \in
                 assignmentLoop(1,
                   SubSeq(shuffled, 1, numSoundMakers(Len(shuffled))), 1,
                   SubSeq(shuffled, numSoundMakers(Len(shuffled)) + 1, Len(shuffled)),
                   {}) :
              startRoundDrawn(1, shuffled, assignments, roomTimer, stale)
       /\ UNCHANGED <<players, pending, ended, lateFiring, hostId, calls>>

\* The lobby of a room of n players, all connected.
LobbyOf(n) ==
  /\ status = "waiting"
  /\ currentRound = 0
  /\ hostId = "p1"
  /\ players = [p \in FirstPlayers(n) |->
                  [isConnected |-> TRUE, isHost |-> p = "p1", score |-> 0,
                   stats |-> defaultStats]]
  /\ rounds = <<>>
  /\ roomTimer = NoTimer
  /\ pending = <<>>
  /\ scored = <<>>
  /\ ended = 0
  /\ stale = {}
  /\ calls = 0

\* Rooms of three to five players in the lobby, from which players leave and
\* come back before startGame draws the roles of the first round.
NextRoles ==
  \/ startGameDrawn
  \/ \E p \in Players : status = "waiting" /\ socketDisconnect(p)
  \/ \E p \in Players : status = "waiting" /\ Reconnect(p)

InitRoles == (\E n \in 3..5 : LobbyOf(n)) /\ lateFiring = FALSE

SpecRoles == InitRoles /\ [][NextRoles]_vars

\* A room of five from the lobby to the scoring of its first round: startGame
\* draws the roles, the phases before the voting end by their deadlines, and
\* the players cast standard votes.
NextOdd ==
  \/ startGameDrawn
  \/ Tick
  \/ DeadlineFire
  \/ RevealFire
  \/ \E p \in Players, s \in 1..(Cardinality(Players) \div 2), c \in VotedCategories :
       castVote(p, s, c)

InitOdd == LobbyOf(5) /\ lateFiring = FALSE

SpecOdd == InitOdd /\ [][NextOdd]_vars

\* The first round of a room of five, as StartedFive, after its two GIF
\* selectors lost their connections during the recording.
StartedFiveAway ==
  /\ status = "recording"
  /\ currentRound = 1
  /\ hostId = "p1"
  /\ players = [p \in FirstPlayers(5) |->
                  [isConnected |-> p \notin {"p4", "p5"}, isHost |-> p = "p1",
                   score |-> 0, stats |-> defaultStats]]
  /\ rounds = <<[roundNumber |-> 1, status |-> "recording",
                 soundMakers |-> {"p1", "p2", "p3"}, gifSelectors |-> {"p4", "p5"},
                 submissions |-> [m \in {"p1", "p2"} |->
                    NewSubmission(1, m, IF m = "p1" THEN "p4" ELSE "p5")]]>>
  /\ roomTimer = schedulePhaseEnd("recording", recordingTimeLimit)
  /\ pending = <<>>
  /\ scored = <<0>>
  /\ ended = 0
  /\ stale = {}
  /\ calls = 0

InitFiveAway == StartedFiveAway /\ lateFiring = FALSE

SpecFiveAway == InitFiveAway /\ [][NextAway]_vars

\* The first round of the game, up to its scoring, with standard votes and
\* reactions.
NextReactions ==
  \/ Tick
  \/ DeadlineFire
  \/ RevealFire
  \/ \E p \in Players, s \in Players, c \in VotedCategories : castVote(p, s, c)
  \/ \E p \in Players, s \in Players, emoji \in Emojis : addReaction(p, s, emoji)

SpecReactions == Init /\ [][NextReactions]_vars

\* Rooms of three to five players from the lobby to the scoring of the first
\* round, with startGame called for the room or for an id the registry does
\* not hold, in the lobby and after the start.
startGameIn(roomId) ==
  IF getRoom(roomId) THEN startGameDrawn ELSE UNCHANGED vars

NextStart ==
  \/ \E roomId \in RoomIds : startGameIn(roomId)
  \/ \E p \in Players : status = "waiting" /\ socketDisconnect(p)
  \/ \E p \in Players : status = "waiting" /\ Reconnect(p)
  \/ Tick
  \/ DeadlineFire
  \/ RevealFire

SpecStart == InitRoles /\ [][NextStart]_vars

\* ----------------------------------------------------------- leaderboard
\* Array.prototype.sort with (a, b) => b.score - a.score is stable: players
\* of equal score keep the order of room.players.
RECURSIVE insertByScore(_, _, _)
insertByScore(sorted, p, pls) ==
  IF sorted = <<>> THEN <<p>>
  ELSE IF pls[Head(sorted)].score >= pls[p].score
       THEN <<Head(sorted)>> \o insertByScore(Tail(sorted), p, pls)
       ELSE <<p>> \o sorted

RECURSIVE sortByScore(_, _)
sortByScore(seq, pls) ==
  IF seq = <<>> THEN <<>>
  ELSE insertByScore(sortByScore(SubSeq(seq, 1, Len(seq) - 1), pls),
                     seq[Len(seq)], pls)

\* isTied of the i-th entry
isTied(sorted, i, pls) == i > 1 /\ pls[sorted[i]].score = pls[sorted[i - 1]].score

\* currentRank with a tied group followed by the next rank, not the next
\* position.  C31 must not hold of it.
RECURSIVE currentRankDense(_, _, _)
currentRankDense(sorted, i, pls) ==
  IF i = 1 THEN 1
  ELSE IF isTied(sorted, i, pls) THEN currentRankDense(sorted, i - 1, pls)
  ELSE currentRankDense(sorted, i - 1, pls) + 1

\* currentRank when the i-th entry is pushed
RECURSIVE currentRank(_, _, _)
currentRank(sorted, i, pls) ==
  IF isTied(sorted, i, pls) THEN currentRank(sorted, i - 1, pls) ELSE i

getLeaderboard(pls) ==
  LET sorted == sortByScore(
                  SelectSeq(playerOrder,
                            LAMBDA p : p \in DOMAIN pls /\ pls[p].isConnected), pls)
  IN [i \in 1..Len(sorted) |->
        [rank |-> currentRank(sorted, i, pls), playerId |-> sorted[i],
         score |-> pls[sorted[i]].score, scoreChange |-> 0,
         isTied |-> isTied(sorted, i, pls)]]

\* ------------------------------------------------------------ broadcasts
\* The payloads of callbacks.broadcastToRoom, as built from the round at the
\* moment of the call.  They are stated for rounds that keep their
\* submissions as an array (startRoundDrawn).

\* generateSubmissionId: the id of the k-th submission, a fresh string.
generateSubmissionId(k) == <<"sub_1", "sub_2", "sub_3">>[k]

displayId(index) == <<"Submission #1", "Submission #2", "Submission #3">>[index]

\* A 'voting:started' payload that names the sound makers.  C32 must not
\* hold of it.
votingStartedNamed(round) ==
  [k \in SubIds(round) |->
     [id |-> generateSubmissionId(k), displayId |-> displayId(k),
      gif |-> round.submissions[k].gif, caption |-> round.submissions[k].caption,
      audio |-> round.submissions[k].audio,
      soundMakerId |-> round.submissions[k].soundMakerId]]

\* startVotingPhase: the payload of 'voting:started'
votingStarted(round) ==
  [k \in SubIds(round) |->
     [id |-> generateSubmissionId(k), displayId |-> displayId(k),
      gif |-> round.submissions[k].gif, caption |-> round.submissions[k].caption,
      audio |-> round.submissions[k].audio]]

\* endCaptioningPhase: the submissions of the 'game:phaseChange' payload
resultsPhaseChange(round) ==
  [k \in SubIds(round) |->
     [id |-> generateSubmissionId(k),
      gif |-> round.submissions[k].gif, caption |-> round.submissions[k].caption,
      soundMakerId |-> round.submissions[k].soundMakerId]]

\* endVotingPhase: the leaderboard of the 'scoring:update' payload, taken
\* after calculateScores and updatePlayerStats.
scoringUpdateLeaderboard(pls) == getLeaderboard(pls)

\* ------------------------------------------------------ the room registry
\* One room of the registry, from its creation to its deletion.  room.players
\* is `players`; the array keeps the order of arrival, which is the order of
\* playerOrder because ids are handed out in that order.
MaxPlayers == 8

\* The ids of the rooms in `rooms`: leaveRoom deletes the room with its last
\* player, createRoom sets it with its first.
rooms == IF Players = {} THEN {} ELSE {RoomId}

indexOf(p) == CHOOSE i \in DOMAIN playerOrder : playerOrder[i] = p

\* uuidv4(): an id that nothing holds yet.  The next id of playerOrder after
\* every id the room holds, in room.players or in room.hostId.
freshIds ==
  {i \in DOMAIN playerOrder :
     \A q \in (Players \cup {hostId}) \cap FirstPlayers(Len(playerOrder)) :
        indexOf(q) < i}

uuidv4 == playerOrder[CHOOSE i \in freshIds : \A j \in freshIds : i <= j]

newPlayer(host) ==
  [isConnected |-> TRUE, isHost |-> host, score |-> 0, stats |-> defaultStats]

\* createRoom, while the registry is empty.
createRoom ==
  /\ rooms = {}
  /\ freshIds # {}
  /\ players' = [p \in {uuidv4} |-> newPlayer(TRUE)]
  /\ hostId' = uuidv4
  /\ status' = "waiting"
  /\ currentRound' = 0
  /\ rounds' = <<>>
  /\ UNCHANGED <<roomTimer, pending, scored, ended, stale, lateFiring, calls>>

joinRoomError ==
  IF rooms = {} THEN "Room not found"
  ELSE IF status # "waiting" THEN "Game already in progress"
  ELSE IF Cardinality(Players) >= MaxPlayers THEN "Room is full (max 8 players)"
  ELSE Null

\* joinRoom under a nickname no connected player of the room has.
joinRoom ==
  /\ freshIds # {}
  /\ IF joinRoomError # Null THEN UNCHANGED vars
     ELSE /\ players' = [p \in Players \cup {uuidv4} |->
                           IF p \in Players THEN players[p] ELSE newPlayer(FALSE)]
          /\ UNCHANGED <<status, currentRound, rounds, roomTimer, pending,
                         scored, ended, stale, lateFiring, hostId, calls>>

\* room.players.find(p => p.isConnected) once playerId is filtered out.
connectedAfter(playerId) ==
  SelectSeq(playerOrder,
            LAMBDA q : q \in Players \ {playerId} /\ players[q].isConnected)

leaveRoom(playerId) ==
  LET remaining == Players \ {playerId}
      found == connectedAfter(playerId)
  IN  IF playerId \notin Players THEN UNCHANGED vars
      ELSE /\ IF remaining # {} /\ playerId = hostId /\ found # <<>>
              THEN /\ players' = [q \in remaining |->
                        IF q = Head(found)
                        THEN [players[q] EXCEPT !.isHost = TRUE]
                        ELSE players[q]]
                   /\ hostId' = Head(found)
              ELSE /\ players' = [q \in remaining |-> players[q]]
                   /\ hostId' = hostId
           /\ UNCHANGED <<status, currentRound, rounds, roomTimer, pending,
                          scored, ended, stale, lateFiring, calls>>

\* socket.on('room:leave'): the socket is registered in socketToPlayer, that
\* is, its player is connected.
NextHost ==
  \/ createRoom
  \/ joinRoom
  \/ \E p \in connectedPlayers : leaveRoom(p)
  \/ \E p \in Players : socketDisconnect(p)
  \/ \E p \in Players : Reconnect(p)

\* The registry before the first createRoom.
InitHost ==
  /\ status = "waiting"
  /\ currentRound = 0
  /\ hostId = Null
  /\ players = <<>>
  /\ rounds = <<>>
  /\ roomTimer = NoTimer
  /\ pending = <<>>
  /\ scored = <<>>
  /\ ended = 0
  /\ stale = {}
  /\ lateFiring = FALSE
  /\ calls = 0

SpecHost == InitHost /\ [][NextHost]_vars

\* ------------------------------------------------------------------ claims
roomState == <<status, currentRound, players, rounds, roomTimer, pending,
               scored, ended>>

RevealPending == \E i \in 1..Len(pending) : pending[i].kind = "reveal"

StandardVotes(round) ==
  SumOver(SubIds(round),
          [i \in SubIds(round) |->
             Cardinality({v \in round.submissions[i].votes : v.category = "standard"})])

\* C1: for every round, endVotingPhase (scoring, crediting, scheduling of the
\* next round or the game end) runs at most once, hence exactly once when the
\* round is completed.
C1_ScoredOnce ==
  \A r \in 1..Len(rounds) :
    /\ scored[r] <= 1
    /\ rounds[r].status = "completed" => scored[r] = 1

\* C2: once one trigger has made the transition the other is a no-op: after
\* the captioning -> results transition no captioning deadline is armed, and
\* after the round's voting -> scoring transition no voting deadline is armed.
C2_OtherTriggerIdle ==
  rounds # <<>> =>
    /\ latest.status \in {"voting", "completed"} => roomTimer.phase # "captioning"
    /\ scored[Len(rounds)] >= 1 => roomTimer.phase # "voting"

\* C3: a cancelled deadline callback that runs late changes no state of the
\* room, whatever phase the latest round is in.
C3_StaleIgnored ==
  [][\A ph \in stale : StaleFire(ph) => UNCHANGED roomState]_vars

\* C4: at most one timer of the room is outstanding at any time.
C4_OneTimer ==
  Len(pending) + (IF roomTimer.phase = "none" THEN 0 ELSE 1) <= 1

PhaseEdges ==
  {<<"waiting", "recording">>, <<"recording", "captioning">>,
   <<"captioning", "results">>, <<"results", "voting">>,
   <<"voting", "scoring">>, <<"scoring", "recording">>,
   <<"scoring", "finished">>}

\* C5: room.status changes only along the edges of the phase sequence.
C5_PhaseEdges ==
  [][status' # status => <<status, status'>> \in PhaseEdges]_vars

\* C6: with the timers running, a started game reaches the finished phase,
\* whatever the players do or fail to do.
C6_ReachesFinished == <>(status = "finished")

\* A finished game in which nobody submitted or voted and a player is away.
C6_Witness ==
  /\ status = "finished"
  /\ \E p \in Players : ~players[p].isConnected
  /\ \A r \in 1..Len(rounds) : \A i \in SubIds(rounds[r]) :
       /\ rounds[r].submissions[i].votes = {}
       /\ rounds[r].submissions[i].audio = PlaceholderAudio

\* C7: finished is terminal and endGame runs once.
C7_FinishedTerminal ==
  [][(status = "finished" => status' = "finished") /\ ended' <= 1]_vars

\* C8: in the finished phase every mutation call of a player fails.
C8_FinishedRejectsAll ==
  status = "finished" =>
    \A p \in connectedPlayers, s \in Players :
      /\ submitAudioError(p) # "ok"
      /\ captioningError(p, s) # "ok"
      /\ castVoteError(p, s) # "ok"
      /\ addReactionError(s) # "ok"

\* C9: outside the voting phase castVote answers 'Not in voting phase'.
C9_VoteOnlyInVoting ==
  status # "voting" =>
    \A p \in connectedPlayers, s \in Players :
      castVoteError(p, s) = "Not in voting phase"

\* C10: in the voting phase, the castVote that brings the standard votes of
\* the round to the number of connected players moves the room to scoring in
\* that step and cancels the deadline; the round then stays completed, so it
\* accepts no later vote.
C10_LastVoteEndsVoting ==
  [][/\ (status = "voting" /\ calls' = calls + 1 /\ status' # "scoring") =>
          \A p \in connectedPlayers, s \in SubIds(latest), c \in Categories :
            ~ /\ castVoteError(p, s) = "ok"
              /\ StandardVotes(votesAfter(latest, p, s, c))
                   = Cardinality(connectedPlayers)
              /\ castVote(p, s, c)
     /\ (status = "voting" /\ status' = "scoring") =>
          /\ roomTimer' = NoTimer
          /\ rounds'[Len(rounds)].status = "completed"
          /\ ~RevealPending'
     /\ \A r \in 1..Len(rounds) :
          ( /\ rounds[r].status = "completed"
            /\ r = Len(rounds) => ~RevealPending )
          => /\ rounds'[r].status = "completed"
             /\ r = Len(rounds') => ~RevealPending'
    ]_vars

\* The fourth of four votes has just ended the voting phase.
C10_Witness ==
  /\ status = "scoring"
  /\ calls = 4
  /\ \A p \in Players : players[p].isConnected
  /\ StandardVotes(latest) = 4
  /\ roomTimer = NoTimer
  /\ Len(pending) = 1
  /\ pending[1].left = InterRoundPause

\* C11: in the captioning phase, the finalizeSubmission after which every
\* submission of the round is finalized cancels the deadline and moves the
\* room to results in that step; a finalizeSubmission that leaves a
\* submission unfinalized changes neither the phase nor the deadline.
C11_LastFinalizeEndsCaptioning ==
  [][(status = "captioning" /\ calls' = calls + 1) =>
       \A p \in connectedPlayers, a \in SubIds(latest) :
         (captioningError(p, a) = "ok" /\ finalizeSubmission(p, a)) =>
           IF \A i \in SubIds(latest) \ {a} : latest.submissions[i].submittedAt # Null
           THEN /\ status' = "results"
                /\ roomTimer' = NoTimer
                /\ \A i \in SubIds(latest) :
                     rounds'[Len(rounds)].submissions[i].submittedAt # Null
           ELSE /\ status' = "captioning"
                /\ rounds'[Len(rounds)].status = "captioning"
                /\ roomTimer' = roomTimer
                /\ pending' = pending
    ]_vars

\* Both selectors have finalized before the deadline, without a GIF: the
\* second call has just ended the captioning phase.
C11_Witness ==
  /\ status = "results"
  /\ roomTimer = NoTimer
  /\ pending = <<[kind |-> "reveal", left |-> RevealPause]>>
  /\ \A i \in SubIds(latest) :
       /\ latest.submissions[i].submittedAt # Null
       /\ latest.submissions[i].gif = Null

\* C12: no submitAudio changes the round's status, the room's phase or the
\* armed deadline, and the round goes from recording to captioning only in
\* the step in which the due recording deadline fires.
C12_RecordingRunsToDeadline ==
  [][/\ (status = "recording" /\ calls' = calls + 1) =>
          \A p \in connectedPlayers, audio \in Audios :
            (submitAudioError(p) = "ok" /\ submitAudio(p, audio)) =>
              /\ status' = "recording"
              /\ rounds'[Len(rounds)].status = "recording"
              /\ roomTimer' = roomTimer
              /\ pending' = pending
     /\ (latest.status = "recording" /\ rounds'[Len(rounds)].status # "recording") =>
          /\ rounds'[Len(rounds)].status = "captioning"
          /\ roomTimer = [phase |-> "recording", left |-> 0]
          /\ calls' = calls
    ]_vars

\* Every sound maker has submitted audio and the round is still recording.
C12_Witness ==
  /\ status = "recording"
  /\ latest.status = "recording"
  /\ roomTimer.phase = "recording"
  /\ \A i \in SubIds(latest) : latest.submissions[i].audio \in Audios

BonusCategories == Categories \ {"standard"}

\* C13: in the voting phase a castVote in a bonus category never ends the
\* phase, and a castVote ends it only when the standard votes have reached
\* the number of connected players.
C13_OnlyStandardVotesEndVoting ==
  [][(status = "voting" /\ calls' = calls + 1) =>
       \A p \in connectedPlayers, s \in SubIds(latest), c \in Categories :
         (castVoteError(p, s) = "ok" /\ castVote(p, s, c)) =>
           /\ c \in BonusCategories => status' = "voting"
           /\ status' = "scoring" =>
                StandardVotes(rounds'[Len(rounds)]) >= Cardinality(connectedPlayers)
    ]_vars

\* The submissions of the round that hold a vote of p in the category.
VotedBy(round, p, category) ==
  {i \in SubIds(round) :
     [playerId |-> p, category |-> category] \in round.submissions[i].votes}

\* C14: in every round a player holds at most one standard vote, and after
\* a successful standard castVote the player's only standard vote is the new
\* one.
C14_OneStandardVote ==
  /\ [](\A r \in 1..Len(rounds) : \A p \in Players :
          Cardinality(VotedBy(rounds[r], p, "standard")) <= 1)
  /\ [][calls' = calls + 1 =>
          \A p \in connectedPlayers, s \in SubIds(latest) :
            (castVoteError(p, s) = "ok" /\ castVote(p, s, "standard")) =>
              VotedBy(rounds'[Len(rounds)], p, "standard") = {s}
       ]_vars

\* The unassigned sound maker p3 has voted twice and holds one vote, for the
\* submission of p2.
C14_Witness ==
  /\ status = "voting"
  /\ calls = 2
  /\ \A p \in Players : players[p].isConnected
  /\ totalVotes(latest) = 1
  /\ VotedBy(latest, "p3", "standard") = {"p2"}

\* C15: while a round is voted on, its standard votes never exceed the
\* number of connected players.
C15_VotesWithinConnected ==
  (status = "voting" /\ latest.status = "voting") =>
    StandardVotes(latest) <= Cardinality(connectedPlayers)

Creators(round, i) ==
  {round.submissions[i].soundMakerId, round.submissions[i].gifSelectorId}

\* C16: castVote for a submission of which the caller is a creator is
\* rejected and changes no vote list, and no submission ever holds a vote of
\* one of its creators.
C16_NoSelfVote ==
  /\ [](\A r \in 1..Len(rounds) : \A i \in SubIds(rounds[r]) :
          \A v \in rounds[r].submissions[i].votes :
            v.playerId \notin Creators(rounds[r], i))
  /\ [](rounds # <<>> /\ latest.status = "voting" =>
          \A i \in SubIds(latest) : \A p \in Creators(latest, i) :
            castVoteError(p, i) = "Cannot vote for your own submission")
  /\ [][rounds' # rounds =>
          \A p \in connectedPlayers, s \in SubIds(latest), c \in Categories :
            p \in Creators(latest, s) => ~castVote(p, s, c)
       ]_vars

\* p1 has voted for the submission of p2 and may now try its own.
C16_Witness ==
  /\ status = "voting"
  /\ VotedBy(latest, "p1", "standard") = {"p2"}
  /\ "p1" \in Creators(latest, "p1")
  /\ castVoteError("p1", "p1") # "ok"

\* C17: a successful castVote in one category leaves the caller's votes in
\* the other categories in place.
C17_RetractPerCategory ==
  [][(status = "voting" /\ calls' = calls + 1) =>
       \A p \in connectedPlayers, s \in SubIds(latest), c \in Categories :
         (castVoteError(p, s) = "ok" /\ castVote(p, s, c)) =>
           \A d \in Categories \ {c} :
             VotedBy(rounds'[Len(rounds)], p, d) = VotedBy(latest, p, d)
    ]_vars

\* C18: in the voting phase every submission of the current round has audio,
\* a GIF, a non-empty caption and a finalize timestamp.
C18_CompleteInVoting ==
  status = "voting" =>
    \A i \in SubIds(latest) :
      /\ latest.submissions[i].audio # Null
      /\ latest.submissions[i].gif # Null
      /\ latest.submissions[i].caption # ""
      /\ latest.submissions[i].submittedAt # Null

\* C19: once a submission's submittedAt is set, no step changes its GIF, its
\* caption or its submittedAt.
C19_FinalizedIsFrozen ==
  [][rounds' # rounds =>
       \A r \in DOMAIN rounds : \A i \in SubIds(rounds[r]) :
         rounds[r].submissions[i].submittedAt # Null =>
           /\ r \in DOMAIN rounds'
           /\ rounds'[r].submissions[i].submittedAt = rounds[r].submissions[i].submittedAt
           /\ rounds'[r].submissions[i].gif = rounds[r].submissions[i].gif
           /\ rounds'[r].submissions[i].caption = rounds[r].submissions[i].caption]_vars

NamedErrors ==
  {"Room not found", "Not in recording phase", "You are not a sound maker this round",
   "Not in captioning phase", "Invalid assignment", "Not in voting phase",
   "Submission not found", "Cannot vote for your own submission"}

WrongStatus(required) == rounds = <<>> \/ latest.status # required

\* What the claim lists as untouched by a rejected call.
Guarded == <<status, rounds, roomTimer>>

\* C20: submitAudio, submitGif, submitCaption, finalizeSubmission and castVote,
\* called for an unknown room, in the wrong round status, by a player without
\* the role for the target, or with an unknown id, answer a named error, and
\* no step that changes the phase, the rounds or the armed timer is such a
\* call.
C20_RejectedCallsChangeNothing ==
  /\ [](\A roomId \in RoomIds, p \in Players, a \in Players :
         /\ (\/ ~getRoom(roomId)
             \/ WrongStatus("recording")
             \/ \A i \in SubIds(latest) : latest.submissions[i].soundMakerId # p)
              => Result(roomId, submitAudioError(p)) \in NamedErrors
         /\ (\/ ~getRoom(roomId)
             \/ WrongStatus("captioning")
             \/ a \notin SubIds(latest)
             \/ latest.submissions[a].gifSelectorId # p)
              => Result(roomId, captioningError(p, a)) \in NamedErrors
         /\ (\/ ~getRoom(roomId)
             \/ WrongStatus("voting")
             \/ a \notin SubIds(latest)
             \/ p \in Creators(latest, a))
              => Result(roomId, castVoteError(p, a)) \in NamedErrors)
  /\ [][Guarded' # Guarded =>
         \A roomId \in RoomIds, p \in Players, a \in Players :
           /\ (\/ ~getRoom(roomId)
               \/ WrongStatus("recording")
               \/ \A i \in SubIds(latest) : latest.submissions[i].soundMakerId # p)
                => \A audio \in Audios : ~InRoom(roomId, p, submitAudio(p, audio))
           /\ (\/ ~getRoom(roomId)
               \/ WrongStatus("captioning")
               \/ a \notin SubIds(latest)
               \/ latest.submissions[a].gifSelectorId # p)
                => /\ \A gif \in Gifs : ~InRoom(roomId, p, submitGif(p, a, gif))
                   /\ \A caption \in Captions :
                        ~InRoom(roomId, p, submitCaption(p, a, caption))
                   /\ ~InRoom(roomId, p, finalizeSubmission(p, a))
           /\ (\/ ~getRoom(roomId)
               \/ WrongStatus("voting")
               \/ a \notin SubIds(latest)
               \/ p \in Creators(latest, a))
                => \A c \in VotedCategories :
                     ~InRoom(roomId, p, castVote(p, a, c))]_vars

\* Captioning with a GIF already selected, where a sound maker targets its
\* own assignment, an id of no assignment is named, and a vote is early.
C20_Witness ==
  /\ status = "captioning"
  /\ \E i \in SubIds(latest) : latest.submissions[i].gif \in Gifs
  /\ \E p \in Players, a \in SubIds(latest), u \in Players \ SubIds(latest) :
       /\ players[p].isConnected
       /\ latest.submissions[a].gifSelectorId # p
       /\ captioningError(p, a) = "Invalid assignment"
       /\ captioningError(p, u) = "Invalid assignment"
       /\ submitAudioError(p) = "Not in recording phase"
       /\ castVoteError(p, a) = "Not in voting phase"

\* C21: a round is added only after the latest round r is scored, with r below
\* totalRounds, and is numbered r + 1; the game finishes only after the round
\* numbered totalRounds is scored; and once that round is scored the room
\* never enters recording.
C21_RoundProgression ==
  [][/\ Len(rounds') > Len(rounds) =>
          /\ scored[Len(rounds)] > 0
          /\ latest.roundNumber < totalRounds
          /\ rounds'[Len(rounds')].roundNumber = latest.roundNumber + 1
     /\ (status' = "finished" /\ status # "finished") =>
          /\ scored[Len(rounds)] > 0
          /\ latest.roundNumber = totalRounds
     /\ (status' = "recording" /\ status # "recording") =>
          ~\E r \in DOMAIN rounds :
             rounds[r].roundNumber = totalRounds /\ scored[r] > 0]_vars

\* C22: while the room is not finished, currentRound is at most totalRounds.
C22_CurrentRoundWithinTotal ==
  status # "finished" => currentRound <= totalRounds

\* C23: at most one round of the room has a status other than 'completed'.
C23_OneOpenRound ==
  Cardinality({r \in DOMAIN rounds : rounds[r].status # "completed"}) <= 1

Range(seq) == {seq[k] : k \in DOMAIN seq}

\* C24: the soundMakers and the gifSelectors of a new round are disjoint,
\* together they are the players connected when the round starts, each once,
\* and the sound makers are ceil(n/2) of the n.
C24_RolesSplitConnected ==
  rounds # <<>> =>
    LET n == Cardinality(connectedPlayers) IN
    /\ Range(latest.soundMakers) \cap Range(latest.gifSelectors) = {}
    /\ Range(latest.soundMakers) \cup Range(latest.gifSelectors) = connectedPlayers
    /\ Len(latest.soundMakers) + Len(latest.gifSelectors) = n
    /\ Len(latest.soundMakers) = Cardinality(Range(latest.soundMakers))
    /\ 2 * Len(latest.soundMakers) \in {n, n + 1}

C24_Witness ==
  /\ rounds # <<>>
  /\ Cardinality(connectedPlayers) = 5
  /\ Len(latest.soundMakers) = 3
  /\ Len(latest.gifSelectors) = 2

\* C25: in every assignment of a round the sound maker and the GIF selector
\* differ, the first is one of the round's soundMakers and the second one of
\* its gifSelectors, and no id is the sound maker of two assignments or the
\* selector of two, whatever the shuffle and the selector draws give.
C25_AssignmentsWellFormed ==
  rounds # <<>> =>
    LET a == latest.assignments IN
    /\ \A k \in DOMAIN a :
         /\ a[k].soundMakerId # a[k].gifSelectorId
         /\ a[k].soundMakerId \in Range(latest.soundMakers)
         /\ a[k].gifSelectorId \in Range(latest.gifSelectors)
    /\ \A k, l \in DOMAIN a :
         k # l => /\ a[k].soundMakerId # a[l].soundMakerId
                  /\ a[k].gifSelectorId # a[l].gifSelectorId
    /\ \A k \in DOMAIN a :
         /\ latest.submissions[k].soundMakerId = a[k].soundMakerId
         /\ latest.submissions[k].gifSelectorId = a[k].gifSelectorId

C25_Witness ==
  /\ rounds # <<>>
  /\ Len(latest.assignments) = 2
  /\ latest.assignments[1].soundMakerId = "p4"
  /\ latest.assignments[1].gifSelectorId = "p1"
  /\ latest.assignments[2].gifSelectorId = "p5"

\* The sound makers of the round that have no assignment.
Unassigned(round) ==
  {m \in Range(round.soundMakers) :
     \A k \in DOMAIN round.assignments : round.assignments[k].soundMakerId # m}

PairsOf(round) ==
  {{round.submissions[i].soundMakerId, round.submissions[i].gifSelectorId} :
     i \in SubIds(round)}

\* The pairs issued in the rounds of the game so far.
Issued == UNION {PairsOf(rounds[r]) : r \in DOMAIN rounds}

\* Some draw of roles and selectors for the connected players repeats no pair.
FreshDrawExists ==
  \E sm \in RoleSplits : \E pair \in Pairings(sm) :
    \A m \in DOMAIN pair : {m, pair[m]} \notin Issued

\* C27: a new round repeats no pair of an earlier round of the game when some
\* draw for the connected players repeats none.
C27_NoRepeatedPair ==
  [][(Len(rounds') > Len(rounds) /\ FreshDrawExists) =>
       PairsOf(rounds'[Len(rounds')]) \cap Issued = {}]_vars

\* C28: in a scored round each submission's score is its number of votes
\* times pointsPerVote plus participationPoints, plus roundWinnerBonus exactly
\* when it has a vote and no submission of the round has more votes.
C28_ScoreOfVotes ==
  \A r \in DOMAIN rounds :
    scored[r] > 0 =>
      \A i \in SubIds(rounds[r]) :
        LET n(j) == Cardinality(rounds[r].submissions[j].votes)
            top == n(i) > 0 /\ \A j \in SubIds(rounds[r]) : n(j) <= n(i)
        IN rounds[r].submissions[i].score =
             n(i) * pointsPerVote + participationPoints
               + (IF top THEN roundWinnerBonus ELSE 0)

C30_ScoreMonotonic ==
  [][players' # players =>
       \A p \in Players :
         /\ players'[p].score >= players[p].score
         /\ players'[p].score # players[p].score =>
              /\ status' = "scoring"
              /\ rounds' # <<>>
              /\ scored' = [scored EXCEPT ![Len(rounds)] = @ + 1]
              /\ rounds'[Len(rounds)].status = "completed"]_vars

\* The second round is scored and a player holds more than one round can
\* give a player of a room of four.
C30_Witness ==
  /\ status = "scoring"
  /\ Len(rounds) = 2
  /\ scored[2] > 0
  /\ \E p \in Players : players[p].score > 4 * pointsPerVote + participationPoints
                                             + roundWinnerBonus

\* C31: getLeaderboard lists the connected players, each once, with their
\* scores in non-increasing order; entries of equal score have the same rank,
\* and the first entry of each score has its position as rank.
C31_LeaderboardRanking ==
  LET lb == getLeaderboard(players) IN
  /\ Len(lb) = Cardinality(connectedPlayers)
  /\ {lb[i].playerId : i \in DOMAIN lb} = connectedPlayers
  /\ \A i \in DOMAIN lb : lb[i].score = players[lb[i].playerId].score
  /\ \A i, j \in DOMAIN lb :
       /\ i < j => lb[i].score >= lb[j].score
       /\ lb[i].score = lb[j].score => lb[i].rank = lb[j].rank
  /\ \A i \in DOMAIN lb :
       (i = 1 \/ lb[i - 1].score # lb[i].score) => lb[i].rank = i

\* The leaderboard of a scored round with the ranks 1, 1, 3, 3.
C31_Witness ==
  /\ status = "scoring"
  /\ Cardinality(connectedPlayers) = 4
  /\ LET lb == getLeaderboard(players) IN
     /\ lb[1].score > lb[3].score
     /\ <<lb[1].rank, lb[2].rank, lb[3].rank, lb[4].rank>> = <<1, 1, 3, 3>>

\* An entry of a payload names a creator of the submission it describes: by a
\* field of that name, or by a value that is the creator's id.
Names(entry, submission) ==
  \/ DOMAIN entry \cap {"soundMakerId", "gifSelectorId"} # {}
  \/ \E f \in DOMAIN entry :
       entry[f] \in {submission.soundMakerId, submission.gifSelectorId}

\* C32: the 'voting:started' payload that startVotingPhase broadcasts has one
\* entry per submission of the round, each under its own display label, and
\* no entry names the sound maker or the GIF selector of its submission.
C32_VotingStartedAnonymous ==
  [][RevealFire =>
       LET round == rounds'[Len(rounds')]
           payload == votingStarted(round)
       IN /\ DOMAIN payload = SubIds(round)
          /\ \A k, l \in DOMAIN payload :
               k # l => payload[k].displayId # payload[l].displayId
          /\ \A k \in DOMAIN payload :
               /\ payload[k].id = generateSubmissionId(k)
               /\ payload[k].displayId \notin Players
               /\ ~Names(payload[k], round.submissions[k])]_vars

C32_Witness ==
  /\ status = "voting"
  /\ roomTimer = schedulePhaseEnd("voting", votingTimeLimit)
  /\ Len(votingStarted(latest)) = 2
  /\ votingStarted(latest)[2].displayId = "Submission #2"
  /\ votingStarted(latest)[2].gif = DefaultGif

\* C33: the end of the recording phase gives every submission without audio
\* the placeholder and leaves submitted audio as it is; an accepted
\* submitAudio leaves its audio on the caller's submission, whatever was
\* there; and from captioning on every submission of the round has audio.
C33_AudioNeverMissing ==
  /\ []((rounds # <<>> /\ latest.status \in {"captioning", "voting", "completed"}) =>
          \A i \in SubIds(latest) : latest.submissions[i].audio # Null)
  /\ [][rounds' # rounds =>
          /\ (latest.status = "recording" /\ rounds'[Len(rounds)].status = "captioning") =>
               \A i \in SubIds(latest) :
                 rounds'[Len(rounds)].submissions[i].audio =
                   IF latest.submissions[i].audio = Null THEN PlaceholderAudio
                   ELSE latest.submissions[i].audio
          /\ \A p \in Players, audio \in Audios :
               submitAudio(p, audio) =>
                 \A i \in SubIds(latest) :
                   rounds'[Len(rounds)].submissions[i].audio =
                     IF latest.submissions[i].soundMakerId = p THEN audio
                     ELSE latest.submissions[i].audio]_vars

\* Captioning after a deadline that found one submission with the audio of
\* a second submitAudio and the other without audio.
C33_Witness ==
  /\ latest.status = "captioning"
  /\ calls = 2
  /\ latest.submissions["p1"].audio = "a2"
  /\ latest.submissions["p2"].audio = PlaceholderAudio

\* C34: the step that scores a round raises the score of each submission's
\* GIF selector by the submission's score, raises the score of its sound
\* maker by soundMakerVotePoints exactly when the submission has a vote and
\* no submission of the round has more, and changes no other player's score.
C34_CreditsOfScoring ==
  [][scored' # scored /\ Len(rounds') = Len(rounds) =>
       LET round == rounds'[Len(rounds)]
           n(i) == Cardinality(round.submissions[i].votes)
           top(i) == n(i) > 0 /\ \A j \in SubIds(round) : n(j) <= n(i)
           gain(p) == players'[p].score - players[p].score
       IN \A p \in Players :
            IF \E i \in SubIds(round) : round.submissions[i].gifSelectorId = p
            THEN \E i \in SubIds(round) :
                   /\ round.submissions[i].gifSelectorId = p
                   /\ gain(p) = round.submissions[i].score
            ELSE IF \E i \in SubIds(round) : round.submissions[i].soundMakerId = p
            THEN \E i \in SubIds(round) :
                   /\ round.submissions[i].soundMakerId = p
                   /\ gain(p) = IF top(i) THEN soundMakerVotePoints ELSE 0
            ELSE gain(p) = 0]_vars

\* A scored round of five: the winner's selector holds its 210, the winner's
\* sound maker the 25, the other selector its 60, the two others nothing.
C34_Witness ==
  /\ status = "scoring"
  /\ scored = <<1>>
  /\ [p \in Players |-> players[p].score] =
       [p \in Players |->
          CASE p = "p4" -> 210 [] p = "p1" -> 25 [] p = "p5" -> 60 [] OTHER -> 0]

\* C35: each entry of the leaderboard broadcast by the step that scores a
\* round carries as scoreChange the player's score after the step minus the
\* player's score before it.
C35_ScoreChangeIsDelta ==
  [][scored' # scored /\ Len(rounds') = Len(rounds) =>
       LET leaderboard == scoringUpdateLeaderboard(players') IN
       \A i \in DOMAIN leaderboard :
         leaderboard[i].scoreChange =
           players'[leaderboard[i].playerId].score
             - players[leaderboard[i].playerId].score]_vars

\* The rounds without their reactions.
WithoutReactions(rds) ==
  [r \in DOMAIN rds |->
     [rds[r] EXCEPT !.submissions =
        [i \in DOMAIN @ |-> [@[i] EXCEPT !.reactions = {}]]]]

\* C36: once a round exists addReaction is accepted for each of its
\* submissions, in every phase; a submission holds at most one reaction of a
\* player, the one of the player's latest call; and an accepted addReaction
\* changes the reactions of its target only.
C36_ReactionsAreCosmetic ==
  /\ [](rounds # <<>> =>
          /\ \A s \in SubIds(latest) : addReactionError(s) = "ok"
          /\ \A r \in DOMAIN rounds : \A i \in SubIds(rounds[r]) : \A p \in Players :
               Cardinality({x \in rounds[r].submissions[i].reactions :
                              x.playerId = p}) <= 1)
  /\ [][calls' = calls + 1 =>
          \A p \in Players, s \in Players, emoji \in Emojis :
            addReaction(p, s, emoji) =>
              /\ {x \in rounds'[Len(rounds)].submissions[s].reactions :
                    x.playerId = p} = {[playerId |-> p, emoji |-> emoji]}
              /\ \A i \in SubIds(latest) :
                   i # s => rounds'[Len(rounds)].submissions[i].reactions
                              = latest.submissions[i].reactions
              /\ WithoutReactions(rounds') = WithoutReactions(rounds)
              /\ UNCHANGED <<status, players, roomTimer, pending, scored>>]_vars

\* The scoring phase, with votes cast, in which p1 has replaced its reaction
\* on a submission.
C36_Witness ==
  /\ status = "scoring"
  /\ totalVotes(latest) > 0
  /\ latest.submissions["p2"].reactions = {[playerId |-> "p1", emoji |-> "e2"]}
  /\ calls >= 3

\* C37: startGame is accepted exactly for the room in status 'waiting' with
\* at least 4 connected players, and answers 'Game already in progress' once
\* the game has started; only a step from such a lobby creates a round, the
\* first one, and arms the recording deadline; the room never holds a second
\* round beside the first.
C37_StartGameOnce ==
  /\ [](\A roomId \in RoomIds :
          /\ Result(roomId, startGameError) = "ok" <=>
               /\ getRoom(roomId)
               /\ status = "waiting"
               /\ Cardinality(connectedPlayers) >= 4
          /\ (getRoom(roomId) /\ status # "waiting") =>
               Result(roomId, startGameError) = "Game already in progress")
  /\ [](Len(rounds) <= 1)
  /\ [][(rounds' # rounds \/ status' # status \/ roomTimer' # roomTimer) =>
          /\ ~startGameIn("gone")
          /\ (status # "waiting" \/ Cardinality(connectedPlayers) < 4) =>
               ~startGameIn(RoomId)
          /\ startGameIn(RoomId) =>
               /\ rounds = <<>> /\ Len(rounds') = 1
               /\ status' = "recording" /\ currentRound' = 1
               /\ roomTimer' = schedulePhaseEnd("recording", recordingTimeLimit)]_vars

\* A started game in its captioning phase, where startGame answers 'Game
\* already in progress', reached from a lobby in which a player had left and
\* come back.
C37_Witness ==
  /\ status = "captioning"
  /\ Len(rounds) = 1
  /\ calls = 2
  /\ Cardinality(connectedPlayers) = 5
  /\ startGameError = "Game already in progress"

\* The place of a round status in recording -> captioning -> voting ->
\* completed.
StatusRank(s) ==
  CASE s = "recording" -> 1 [] s = "captioning" -> 2 [] s = "voting" -> 3
    [] s = "completed" -> 4

\* C38: no step moves a round's status backwards, and no step changes the
\* status, a vote list or a submission score of a completed round.
C38_RoundStatusForward ==
  [][rounds' # rounds =>
       \A r \in DOMAIN rounds :
         /\ r \in DOMAIN rounds'
         /\ StatusRank(rounds'[r].status) >= StatusRank(rounds[r].status)
         /\ rounds[r].status = "completed" =>
              /\ rounds'[r].status = "completed"
              /\ \A i \in SubIds(rounds[r]) :
                   /\ rounds'[r].submissions[i].votes = rounds[r].submissions[i].votes
                   /\ rounds'[r].submissions[i].score = rounds[r].submissions[i].score]_vars

\* C39: no payload broadcast to the room between the start of a round and
\* the end of its voting names a creator of a submission: neither the
\* payload of the step that ends the captioning nor the one of the step that
\* starts the voting.
C39_NoAuthorshipBeforeVotingEnds ==
  [][rounds # <<>> /\ rounds' # <<>> =>
       LET round == rounds'[Len(rounds')] IN
       /\ (status = "captioning" /\ status' = "results") =>
            \A k \in SubIds(round) :
              ~Names(resultsPhaseChange(round)[k], round.submissions[k])
       /\ RevealFire =>
            \A k \in SubIds(round) :
              ~Names(votingStarted(round)[k], round.submissions[k])]_vars

\* C40: after any sequence of createRoom, joinRoom, leaveRoom, disconnect
\* and reconnect, a room that is still in the registry has a hostId naming
\* one of its players, and exactly one of its players has isHost = true.
C40_RoomHasOneHost ==
  rooms # {} =>
    /\ hostId \in Players
    /\ Cardinality({p \in Players : players[p].isHost}) = 1

====
